---- MODULE Spec2Model ----
(***************************************************************************)
(* Model of dexy/handler.py: the DexyHandler lifecycle.                    *)
(*                                                                         *)
(*  SpecSetup    one DexyHandler.setup call, statement by statement        *)
(*  SpecProcess  one DexyHandler.process call, statement by statement      *)
(*  Spec         several handlers running generate_artifact concurrently   *)
(*               against one shared artifact store                         *)
(***************************************************************************)
EXTENDS Integers, Sequences, FiniteSets, TLC

\* ------------------------------------------------------------------------
\* Bounds
\* ------------------------------------------------------------------------
\* longest INPUT_EXTENSIONS list of the handler under setup
MaxIn == 2
\* longest OUTPUT_EXTENSIONS list of the handler under setup
MaxOut == 2
\* longest INPUT_EXTENSIONS list of the next handler
MaxNextIn == 2
\* number of handlers that run generate_artifact concurrently
NumUnits == 2
\* number of process() calls made on one handler
MaxProcessCalls == 2
\* number of set_input_text() calls made on one handler
MaxSetInputCalls == 2
\* the largest value the clock read by time.time() reaches
MaxTime == 1
\* number of generate_artifact() calls made on one handler
MaxGenerateCalls == 2

\* ------------------------------------------------------------------------
\* Extensions
\* ------------------------------------------------------------------------
\* the wildcard entry of INPUT_EXTENSIONS / OUTPUT_EXTENSIONS
WILDCARD == ".*"
\* extension values that occur in the lists and on the previous artifact
Exts == {".txt", ".html", WILDCARD}
\* a false extension value (None or the empty string)
NoExt == ""
\* values Artifact.ext may hold when Artifact.setup returns
ArtifactInitExts == {NoExt, ".txt", ".html"}
\* hashstring of an artifact whose set_hashstring has not run
NoHash == <<>>

\* non-empty lists over S of length at most n
Lists(S, n) == UNION {[1..k -> S] : k \in 1..n}

\* python: x in lst
In(x, lst) == \E k \in DOMAIN lst : lst[k] = x

\* python: set(lst)
ToSet(lst) == {lst[k] : k \in DOMAIN lst}

VARIABLES
    \* ---- DexyHandler.setup ----
    INPUT_EXTENSIONS,   \* klass.INPUT_EXTENSIONS
    OUTPUT_EXTENSIONS,  \* klass.OUTPUT_EXTENSIONS
    next_handler,       \* [given, INPUT_EXTENSIONS] : the next_handler argument
    previous_artifact,  \* [ext] : the previous_artifact argument
    h,                  \* the handler built by setup: [ext, artifact]
    setup_pc,           \* the statement setup executes next
    setup_i,            \* position of the loop of line 43 in OUTPUT_EXTENSIONS
    setup_exc,          \* the exception setup raised, "" when none
    \* ---- DexyHandler.process ----
    proc,               \* the frame of one process() call on one handler
    proc_calls,         \* the number of process() calls started on that handler
    \* ---- DexyHandler.generate_artifact ----
    self,               \* unit -> the handler: [klass, artifact]
    ga_pc,              \* unit -> the statement generate_artifact executes next
    method,             \* unit -> the local variable method
    ga_exc,             \* unit -> the exception that ended the call, "" when none
    ga_calls,           \* unit -> the calls generate_artifact has made, in order
    at_check,           \* unit -> who had persisted / returned at line 115
    store,              \* the persisted artifacts: set of [hashstring, data_dict]
    rows,               \* unit -> the rows handed to controller.log_time
    now,                \* the clock time.time() reads
    start,              \* unit -> the local variable start
    \* ---- DexyHandler.set_input_text ----
    handler,            \* one handler: [has_artifact, artifact]
    sit_args,           \* the texts passed to set_input_text so far, in order
    sit_exc             \* the exception of the last set_input_text call, "" when none

setupVars == <<INPUT_EXTENSIONS, OUTPUT_EXTENSIONS, next_handler,
               previous_artifact, h, setup_pc, setup_i, setup_exc>>

procVars == <<proc, proc_calls>>

gaVars == <<self, ga_pc, method, ga_exc, ga_calls, at_check, store, rows,
            now, start>>

inputVars == <<handler, sit_args, sit_exc>>

vars == <<setupVars, procVars, gaVars, inputVars>>

\* ------------------------------------------------------------------------
\* Artifact data: an OrderedDict is a sequence of <<key, value>> pairs, a
\* text is a sequence of characters
\* ------------------------------------------------------------------------
EmptyDict == <<>>

HasKey(d, key) == \E n \in DOMAIN d : d[n][1] = key

\* python: d[key] = value on an OrderedDict (a new key goes last)
SetItem(d, key, value) ==
    IF HasKey(d, key)
    THEN [n \in DOMAIN d |-> IF d[n][1] = key THEN <<key, value>> ELSE d[n]]
    ELSE Append(d, <<key, value>>)

RECURSIVE JoinValues(_)
JoinValues(d) == IF d = <<>> THEN <<>> ELSE d[1][2] \o JoinValues(Tail(d))

\* Artifact.input_text(): the input fragments, concatenated in order
input_text(input_data_dict) == JoinValues(input_data_dict)

\* the input mappings handed to the handlers
InputDicts ==
    { << <<"1", <<"a">> >> >>,
      << <<"1", <<"a">> >>, <<"2", <<"b">> >> >>,
      << <<"2", <<"b">> >>, <<"1", <<"a">> >> >> }

\* the input of the handlers that run generate_artifact
GenInput == << <<"1", <<"a">> >>, <<"2", <<"b">> >> >>

\* the extension the handlers that run generate_artifact resolved in setup
GenExt == ".txt"

\* ------------------------------------------------------------------------
\* The stage: which convenience methods a DexyHandler subclass defines
\* ------------------------------------------------------------------------
\* the convenience methods, in the order process() probes them
ProbeOrder == <<"process_text", "process_dict", "process_text_to_dict">>

Styles == {ProbeOrder[n] : n \in DOMAIN ProbeOrder}

\* a subclass: the methods it defines, and those of them that raise
StageClasses ==
    {c \in [styles : SUBSET Styles, raising : SUBSET Styles] :
        c.raising \subseteq c.styles}

\* the subclasses of the handlers that run generate_artifact
GenClasses == {c \in StageClasses : c.raising \in {{}, c.styles}}

\* a subclass's process_text: some text made from the input text
process_text(text) == <<"T">> \o text

\* a subclass's process_dict: some mapping made from the input mapping
process_dict(d) == [n \in DOMAIN d |-> <<d[n][1], <<"D">> \o d[n][2]>>]

\* a subclass's process_text_to_dict: the text split into fragments
process_text_to_dict(text) == << <<"1", <<"S">> >>, <<"2", text>> >>

\* ------------------------------------------------------------------------
\* DexyHandler.process, as steps on the frame of one call
\* ------------------------------------------------------------------------
\* the frame of a process() call that has not started
NewFrame(klass, input_data_dict, data_dict) ==
    [pc |-> "line67", k |-> 1,
     styles |-> klass.styles, raising |-> klass.raising,
     input_data_dict |-> input_data_dict,
     data_dict |-> data_dict, data_dict_before |-> data_dict,
     method_used |-> "", called |-> <<>>,
     exc |-> "", exc_arg |-> "", ret |-> ""]

\* hasattr(self, name)
hasattr(f, name) == name \in f.styles

\* a method_used that is never seen as set
MethodUsed_Never(f) == FALSE

\* "if method_used:" of lines 70, 78, 86 and "not method_used" of line 93
MethodUsed(f) == f.method_used # ""

\* line 67: method_used = None
ProcStart(f) == [f EXCEPT !.method_used = "", !.k = 1, !.pc = "probe"]

\* control after the k-th "if hasattr" block: the next block, or line 93
AfterBlock(f) ==
    IF f.k < Len(ProbeOrder)
    THEN [f EXCEPT !.k = f.k + 1, !.pc = "probe"]
    ELSE [f EXCEPT !.pc = "line93"]

\* the hasattr blocks without their "if method_used: raise"
ProcProbe_NoCheck(f) ==
    IF hasattr(f, ProbeOrder[f.k])
    THEN [f EXCEPT !.pc = "call"]
    ELSE AfterBlock(f)

\* lines 69-71, 77-79, 85-87: the hasattr test and the method_used test
ProcProbe(f) ==
    IF hasattr(f, ProbeOrder[f.k])
    THEN IF MethodUsed(f)
         THEN [f EXCEPT !.exc = "AlreadyCalled", !.exc_arg = f.method_used,
                        !.pc = "raised"]
         ELSE [f EXCEPT !.pc = "call"]
    ELSE AfterBlock(f)

\* the stores of the three blocks with line 74 writing under another key
StoreOutput_OtherKey(f, name) ==
    CASE name = "process_text" ->
            SetItem(f.data_dict, "0", process_text(input_text(f.input_data_dict)))
      [] name = "process_dict" ->
            process_dict(f.input_data_dict)
      [] name = "process_text_to_dict" ->
            process_text_to_dict(input_text(f.input_data_dict))

\* what the k-th block stores in data_dict (lines 72-74, 80-82, 88-90)
StoreOutput(f, name) ==
    CASE name = "process_text" ->
            SetItem(f.data_dict, "1", process_text(input_text(f.input_data_dict)))
      [] name = "process_dict" ->
            process_dict(f.input_data_dict)
      [] name = "process_text_to_dict" ->
            process_text_to_dict(input_text(f.input_data_dict))

\* the call of the convenience method with its result thrown away
ProcCall_ForgetsOutput(f) ==
    LET name == ProbeOrder[f.k] IN
    IF name \in f.raising
    THEN [f EXCEPT !.called = Append(@, name),
                   !.exc = "StageError", !.exc_arg = name, !.pc = "raised"]
    ELSE AfterBlock([f EXCEPT !.called = Append(@, name),
                              !.method_used = name])

\* lines 72-75, 80-83, 88-91: the convenience method is called, its result
\* stored, method_used set; an exception of the method leaves process()
ProcCall(f) ==
    LET name == ProbeOrder[f.k] IN
    IF name \in f.raising
    THEN [f EXCEPT !.called = Append(@, name),
                   !.exc = "StageError", !.exc_arg = name, !.pc = "raised"]
    ELSE AfterBlock([f EXCEPT !.called = Append(@, name),
                              !.data_dict = StoreOutput(f, name),
                              !.method_used = name])

\* lines 93-95 without the assignment of line 94
ProcDefault_NoCopy(f) ==
    IF ~MethodUsed(f)
    THEN [f EXCEPT !.method_used = "process", !.pc = "line97"]
    ELSE [f EXCEPT !.pc = "line97"]

\* lines 93-95: no convenience method was used
ProcDefault(f) ==
    IF ~MethodUsed(f)
    THEN [f EXCEPT !.data_dict = f.input_data_dict,
                   !.method_used = "process", !.pc = "line97"]
    ELSE [f EXCEPT !.pc = "line97"]

\* line 97: return method_used
ProcReturn(f) == [f EXCEPT !.ret = f.method_used, !.pc = "returned"]

ProcDone(f) == f.pc \in {"returned", "raised"}

ProcStep(f) ==
    CASE f.pc = "line67" -> ProcStart(f)
      [] f.pc = "probe"  -> ProcProbe(f)
      [] f.pc = "call"   -> ProcCall(f)
      [] f.pc = "line93" -> ProcDefault(f)
      [] f.pc = "line97" -> ProcReturn(f)
      [] OTHER -> f

\* the whole call: the frame when process() has returned or raised
RECURSIVE RunProcess(_)
RunProcess(f) == IF ProcDone(f) THEN f ELSE RunProcess(ProcStep(f))

\* a handler on which process() is not running
IdleFrame ==
    [NewFrame([styles |-> {}, raising |-> {}], EmptyDict, EmptyDict)
        EXCEPT !.pc = "idle"]

\* ------------------------------------------------------------------------
\* DexyHandler.setup
\* ------------------------------------------------------------------------
\* the artifact field of a handler that has none yet
NoArtifact == [created |-> FALSE, ext |-> NoExt, hashstring |-> NoHash,
               next_handler_name |-> ""]

\* Artifact.setup(doc, artifact_key, h, previous_artifact): a fresh artifact
\* whose ext is whatever the Artifact class leaves there
ArtifactSetup(initExt) ==
    [created |-> TRUE, ext |-> initExt, hashstring |-> NoHash,
     next_handler_name |-> ""]

\* Artifact.set_hashstring: a digest of the stage, its input and the
\* resolved extension (an injective digest)
SetHashstring(stage, inputs, ext) == <<stage, inputs, ext>>

\* line 33 with the wildcard left out of the test
InputSupported_NoWildcard(ext, inExts) ==
    ({ext} \cap ToSet(inExts)) # {}

\* line 33, negated: not set([ext, ".*"]).isdisjoint(set(h.INPUT_EXTENSIONS))
InputSupported(ext, inExts) ==
    ({ext, WILDCARD} \cap ToSet(inExts)) # {}

\* line 42: next_handler and not ".*" in next_handler.INPUT_EXTENSIONS
MustMatchNext(nh) == nh.given /\ ~In(WILDCARD, nh.INPUT_EXTENSIONS)

\* line 47 with a test that never finds the extension missing
ExtIsFalse_Never(ext) == FALSE

\* line 47: not h.artifact.ext
ExtIsFalse(ext) == ext = NoExt

\* ------------------------------------------------------------------------
\* The artifact store and DexyHandler.generate_artifact
\* ------------------------------------------------------------------------
Units == 1..NumUnits

\* Artifact.dj_file_exists(): is there a persisted artifact with this hashstring
dj_file_exists(st, artifact) ==
    \E r \in st : r.hashstring = artifact.hashstring

\* Artifact.load_dj(): the artifact takes the persisted data
load_dj(st, artifact) ==
    [artifact EXCEPT !.data_dict =
        (CHOOSE r \in st : r.hashstring = artifact.hashstring).data_dict]

\* Artifact.generate(): the artifact is persisted under its hashstring
generate(st, artifact) ==
    {r \in st : r.hashstring # artifact.hashstring}
    \cup {[hashstring |-> artifact.hashstring, data_dict |-> artifact.data_dict]}

\* a handler as setup returns it
NewHandler(klass) ==
    [klass |-> klass,
     artifact |-> [key |-> "doc.txt|filter",
                   doc |-> [key |-> "doc.txt"],
                   hashstring |-> SetHashstring(klass, GenInput, GenExt),
                   input_data_dict |-> GenInput,
                   data_dict |-> EmptyDict]]

\* the units that have persisted their artifact / returned from the call
HavePersisted == {v \in Units : \E n \in DOMAIN ga_calls[v] : ga_calls[v][n] = "generate"}

HaveReturned == {v \in Units : ga_pc[v] = "returned"}

\* no handler runs generate_artifact
GAIdle ==
    /\ self = [u \in Units |-> NewHandler([styles |-> {}, raising |-> {}])]
    /\ ga_pc = [u \in Units |-> "idle"]
    /\ method = [u \in Units |-> ""]
    /\ ga_exc = [u \in Units |-> ""]
    /\ ga_calls = [u \in Units |-> <<>>]
    /\ at_check = [u \in Units |-> [persisted |-> {}, returned |-> {}]]
    /\ store = {}
    /\ rows = [u \in Units |-> <<>>]
    /\ now = 0
    /\ start = [u \in Units |-> 0]

\* ------------------------------------------------------------------------
\* DexyHandler.set_input_text
\* ------------------------------------------------------------------------
\* the texts passed to set_input_text
Texts == {<<>>, <<"a">>, <<"b">>}

\* h = klass(): a handler that has no artifact attribute
BareHandler ==
    [has_artifact |-> FALSE,
     artifact |-> [input_data_dict |-> EmptyDict, data_dict |-> EmptyDict]]

\* a handler whose artifact attribute is set
HandlerWith(input_data_dict, data_dict) ==
    [has_artifact |-> TRUE,
     artifact |-> [input_data_dict |-> input_data_dict, data_dict |-> data_dict]]

\* hasattr(self, 'artifact')
HasArtifact_Never(hd) == FALSE

HasArtifact(hd) == hd.has_artifact

\* no handler is given an input text
InputIdle ==
    /\ handler = BareHandler
    /\ sit_args = <<>>
    /\ sit_exc = ""

SetupInit ==
    /\ INPUT_EXTENSIONS \in Lists(Exts, MaxIn)
    /\ OUTPUT_EXTENSIONS \in Lists(Exts, MaxOut)
    /\ next_handler \in
          {[given |-> FALSE, INPUT_EXTENSIONS |-> <<>>]}
          \cup {[given |-> TRUE, INPUT_EXTENSIONS |-> l] :
                    l \in Lists(Exts, MaxNextIn)}
    /\ previous_artifact \in {[ext |-> x] : x \in Exts}
    /\ h = [ext |-> NoExt, artifact |-> NoArtifact]
    /\ setup_pc = "line25"
    /\ setup_i = 0
    /\ setup_exc = ""
    /\ proc = IdleFrame
    /\ proc_calls = 0
    /\ InputIdle
    /\ GAIdle

\* lines 25-29: h = klass(); h.artifact = Artifact.setup(...); the name of
\* the next handler is recorded on the artifact
SetupCreateArtifact ==
    /\ setup_pc = "line25"
    /\ \E initExt \in ArtifactInitExts :
          h' = [h EXCEPT !.artifact =
                  [ArtifactSetup(initExt) EXCEPT !.next_handler_name =
                      IF next_handler.given THEN "next" ELSE ""]]
    /\ setup_pc' = "line32"
    /\ UNCHANGED <<INPUT_EXTENSIONS, OUTPUT_EXTENSIONS, next_handler,
                   previous_artifact, setup_i, setup_exc>>
    /\ UNCHANGED <<procVars, gaVars, inputVars>>

\* lines 32-37 with set_hashstring() called as soon as the input is accepted
SetupValidate_HashesEarly ==
    /\ setup_pc = "line32"
    /\ IF InputSupported(previous_artifact.ext, INPUT_EXTENSIONS)
       THEN /\ h' = [h EXCEPT !.ext = previous_artifact.ext,
                              !.artifact.hashstring =
                                  SetHashstring(<<INPUT_EXTENSIONS, OUTPUT_EXTENSIONS>>,
                                                previous_artifact, h.artifact.ext)]
            /\ setup_pc' = "line39"
            /\ UNCHANGED setup_exc
       ELSE /\ setup_exc' = "ExtensionNotSupported"
            /\ setup_pc' = "raised"
            /\ UNCHANGED h
    /\ UNCHANGED <<INPUT_EXTENSIONS, OUTPUT_EXTENSIONS, next_handler,
                   previous_artifact, setup_i>>
    /\ UNCHANGED <<procVars, gaVars, inputVars>>

\* lines 32-37: the upstream extension is checked, then kept as h.ext
SetupValidate ==
    /\ setup_pc = "line32"
    /\ IF InputSupported(previous_artifact.ext, INPUT_EXTENSIONS)
       THEN /\ h' = [h EXCEPT !.ext = previous_artifact.ext]
            /\ setup_pc' = "line39"
            /\ UNCHANGED setup_exc
       ELSE /\ setup_exc' = "ExtensionNotSupported"
            /\ setup_pc' = "raised"
            /\ UNCHANGED h
    /\ UNCHANGED <<INPUT_EXTENSIONS, OUTPUT_EXTENSIONS, next_handler,
                   previous_artifact, setup_i>>
    /\ UNCHANGED <<procVars, gaVars, inputVars>>

\* the branch with the next handler consulted before the wildcard of
\* OUTPUT_EXTENSIONS
SetupBranch_NextBeforeWildcard ==
    /\ setup_pc = "line39"
    /\ IF MustMatchNext(next_handler)
       THEN /\ setup_i' = 1
            /\ setup_pc' = "line43"
            /\ UNCHANGED h
       ELSE IF In(WILDCARD, OUTPUT_EXTENSIONS)
            THEN /\ h' = [h EXCEPT !.artifact.ext = previous_artifact.ext]
                 /\ setup_pc' = "line52"
                 /\ UNCHANGED setup_i
            ELSE /\ h' = [h EXCEPT !.artifact.ext = OUTPUT_EXTENSIONS[1]]
                 /\ setup_pc' = "line52"
                 /\ UNCHANGED setup_i
    /\ UNCHANGED <<INPUT_EXTENSIONS, OUTPUT_EXTENSIONS, next_handler,
                   previous_artifact, setup_exc>>
    /\ UNCHANGED <<procVars, gaVars, inputVars>>

\* the branch with line 50 taking the last entry of OUTPUT_EXTENSIONS
SetupBranch_TakesLast ==
    /\ setup_pc = "line39"
    /\ IF In(WILDCARD, OUTPUT_EXTENSIONS)
       THEN /\ h' = [h EXCEPT !.artifact.ext = previous_artifact.ext]
            /\ setup_pc' = "line52"
            /\ UNCHANGED setup_i
       ELSE IF MustMatchNext(next_handler)
            THEN /\ setup_i' = 1
                 /\ setup_pc' = "line43"
                 /\ UNCHANGED h
            ELSE /\ h' = [h EXCEPT !.artifact.ext =
                                OUTPUT_EXTENSIONS[Len(OUTPUT_EXTENSIONS)]]
                 /\ setup_pc' = "line52"
                 /\ UNCHANGED setup_i
    /\ UNCHANGED <<INPUT_EXTENSIONS, OUTPUT_EXTENSIONS, next_handler,
                   previous_artifact, setup_exc>>
    /\ UNCHANGED <<procVars, gaVars, inputVars>>

\* lines 39-42 and 49-50: the branch on the wildcard and on the next handler
SetupBranch ==
    /\ setup_pc = "line39"
    /\ IF In(WILDCARD, OUTPUT_EXTENSIONS)
       THEN /\ h' = [h EXCEPT !.artifact.ext = previous_artifact.ext]
            /\ setup_pc' = "line52"
            /\ UNCHANGED setup_i
       ELSE IF MustMatchNext(next_handler)
            THEN /\ setup_i' = 1
                 /\ setup_pc' = "line43"
                 /\ UNCHANGED h
            ELSE /\ h' = [h EXCEPT !.artifact.ext = OUTPUT_EXTENSIONS[1]]
                 /\ setup_pc' = "line52"
                 /\ UNCHANGED setup_i
    /\ UNCHANGED <<INPUT_EXTENSIONS, OUTPUT_EXTENSIONS, next_handler,
                   previous_artifact, setup_exc>>
    /\ UNCHANGED <<procVars, gaVars, inputVars>>

\* lines 43-45: one iteration of "for e in h.OUTPUT_EXTENSIONS"; the loop
\* has no break and runs over the whole list
SetupLoop ==
    /\ setup_pc = "line43"
    /\ IF setup_i <= Len(OUTPUT_EXTENSIONS)
       THEN /\ h' = IF In(OUTPUT_EXTENSIONS[setup_i],
                          next_handler.INPUT_EXTENSIONS)
                    THEN [h EXCEPT !.artifact.ext = OUTPUT_EXTENSIONS[setup_i]]
                    ELSE h
            /\ setup_i' = setup_i + 1
            /\ UNCHANGED setup_pc
       ELSE /\ setup_pc' = "line47"
            /\ UNCHANGED <<h, setup_i>>
    /\ UNCHANGED <<INPUT_EXTENSIONS, OUTPUT_EXTENSIONS, next_handler,
                   previous_artifact, setup_exc>>
    /\ UNCHANGED <<procVars, gaVars, inputVars>>

\* lines 47-48: the test made after the loop
SetupCheckFound ==
    /\ setup_pc = "line47"
    /\ IF ExtIsFalse(h.artifact.ext)
       THEN /\ setup_exc' = "NoCompatibleExtension"
            /\ setup_pc' = "raised"
       ELSE /\ setup_pc' = "line52"
            /\ UNCHANGED setup_exc
    /\ UNCHANGED <<INPUT_EXTENSIONS, OUTPUT_EXTENSIONS, next_handler,
                   previous_artifact, h, setup_i>>
    /\ UNCHANGED <<procVars, gaVars, inputVars>>

\* lines 52-58: h.artifact.set_hashstring(); the logger; return h
SetupHashstring ==
    /\ setup_pc = "line52"
    /\ h' = [h EXCEPT !.artifact.hashstring =
                SetHashstring(<<INPUT_EXTENSIONS, OUTPUT_EXTENSIONS>>,
                              previous_artifact, h.artifact.ext)]
    /\ setup_pc' = "returned"
    /\ UNCHANGED <<INPUT_EXTENSIONS, OUTPUT_EXTENSIONS, next_handler,
                   previous_artifact, setup_i, setup_exc>>
    /\ UNCHANGED <<procVars, gaVars, inputVars>>

SetupNext ==
    \/ SetupCreateArtifact
    \/ SetupValidate
    \/ SetupBranch
    \/ SetupLoop
    \/ SetupCheckFound
    \/ SetupHashstring

SpecSetup == SetupInit /\ [][SetupNext]_vars

\* ------------------------------------------------------------------------
\* One process() call on one handler
\* ------------------------------------------------------------------------
ProcessInit ==
    /\ proc \in {NewFrame(c, i, EmptyDict) : c \in StageClasses, i \in InputDicts}
    /\ proc_calls = 1
    /\ InputIdle
    /\ INPUT_EXTENSIONS = <<WILDCARD>>
    /\ OUTPUT_EXTENSIONS = <<WILDCARD>>
    /\ next_handler = [given |-> FALSE, INPUT_EXTENSIONS |-> <<>>]
    /\ previous_artifact = [ext |-> GenExt]
    /\ h = [ext |-> NoExt, artifact |-> NoArtifact]
    /\ setup_pc = "idle"
    /\ setup_i = 0
    /\ setup_exc = ""
    /\ GAIdle

\* line 67
ProcessStart ==
    /\ proc.pc = "line67"
    /\ proc' = ProcStep(proc)
    /\ UNCHANGED <<proc_calls, setupVars, gaVars, inputVars>>

\* lines 69-71, 77-79, 85-87
ProcessProbe ==
    /\ proc.pc = "probe"
    /\ proc' = ProcStep(proc)
    /\ UNCHANGED <<proc_calls, setupVars, gaVars, inputVars>>

\* lines 72-75, 80-83, 88-91
ProcessCall ==
    /\ proc.pc = "call"
    /\ proc' = ProcStep(proc)
    /\ UNCHANGED <<proc_calls, setupVars, gaVars, inputVars>>

\* lines 93-95
ProcessDefault ==
    /\ proc.pc = "line93"
    /\ proc' = ProcStep(proc)
    /\ UNCHANGED <<proc_calls, setupVars, gaVars, inputVars>>

\* line 97
ProcessReturn ==
    /\ proc.pc = "line97"
    /\ proc' = ProcStep(proc)
    /\ UNCHANGED <<proc_calls, setupVars, gaVars, inputVars>>

\* process() is called again on the same handler, whose artifact keeps the
\* data_dict the earlier call left
ProcessAgain ==
    /\ ProcDone(proc)
    /\ proc_calls < MaxProcessCalls
    /\ proc' = NewFrame([styles |-> proc.styles, raising |-> proc.raising],
                        proc.input_data_dict, proc.data_dict)
    /\ proc_calls' = proc_calls + 1
    /\ UNCHANGED <<setupVars, gaVars, inputVars>>

ProcessNext ==
    \/ ProcessAgain
    \/ ProcessStart
    \/ ProcessProbe
    \/ ProcessCall
    \/ ProcessDefault
    \/ ProcessReturn

SpecProcess == ProcessInit /\ [][ProcessNext]_vars

\* ------------------------------------------------------------------------
\* set_input_text() calls on one handler
\* ------------------------------------------------------------------------
\* the handler is fresh from klass(), or comes from setup with its artifact
\* (whose data_dict is empty, or holds what process() left there)
InputInit ==
    /\ handler \in {BareHandler}
                   \cup {HandlerWith(i, d) : i \in InputDicts,
                                             d \in {EmptyDict} \cup InputDicts}
    /\ sit_args = <<>>
    /\ sit_exc = ""
    /\ proc = IdleFrame
    /\ proc_calls = 0
    /\ GAIdle
    /\ INPUT_EXTENSIONS = <<WILDCARD>>
    /\ OUTPUT_EXTENSIONS = <<WILDCARD>>
    /\ next_handler = [given |-> FALSE, INPUT_EXTENSIONS |-> <<>>]
    /\ previous_artifact = [ext |-> GenExt]
    /\ h = [ext |-> NoExt, artifact |-> NoArtifact]
    /\ setup_pc = "idle"
    /\ setup_i = 0
    /\ setup_exc = ""

\* lines 100-105: set_input_text(input_text)
SetInputText(text) ==
    /\ Len(sit_args) < MaxSetInputCalls
    /\ sit_args' = Append(sit_args, text)
    /\ IF HasArtifact(handler)
       THEN /\ sit_exc' = "AlreadyHaveArtifact"
            /\ UNCHANGED handler
       ELSE /\ handler' = HandlerWith(<< <<"1", text>> >>, EmptyDict)
            /\ sit_exc' = ""
    /\ UNCHANGED <<setupVars, procVars, gaVars>>

InputNext == \E text \in Texts : SetInputText(text)

SpecInput == InputInit /\ [][InputNext]_vars

\* ------------------------------------------------------------------------
\* Handlers running generate_artifact against one store
\* ------------------------------------------------------------------------
Init ==
    /\ self \in [Units -> {NewHandler(c) : c \in GenClasses}]
    /\ ga_pc = [u \in Units |-> "line113"]
    /\ method = [u \in Units |-> ""]
    /\ ga_exc = [u \in Units |-> ""]
    /\ ga_calls = [u \in Units |-> <<>>]
    /\ at_check = [u \in Units |-> [persisted |-> {}, returned |-> {}]]
    /\ store = {}
    /\ rows = [u \in Units |-> <<>>]
    /\ now = 0
    /\ start = [u \in Units |-> 0]
    /\ proc = IdleFrame
    /\ proc_calls = 0
    /\ InputIdle
    /\ INPUT_EXTENSIONS = <<WILDCARD>>
    /\ OUTPUT_EXTENSIONS = <<WILDCARD>>
    /\ next_handler = [given |-> FALSE, INPUT_EXTENSIONS |-> <<>>]
    /\ previous_artifact = [ext |-> GenExt]
    /\ h = [ext |-> NoExt, artifact |-> NoArtifact]
    /\ setup_pc = "idle"
    /\ setup_i = 0
    /\ setup_exc = ""

\* generate_artifact without the test of line 115
GACheck_AlwaysGenerates(u) ==
    /\ ga_pc[u] = "line113"
    /\ method' = [method EXCEPT ![u] = "generated"]
    /\ ga_pc' = [ga_pc EXCEPT ![u] = "line120"]
    /\ ga_calls' = [ga_calls EXCEPT ![u] = Append(@, "dj_file_exists")]
    /\ at_check' = [at_check EXCEPT ![u] =
                      [persisted |-> HavePersisted, returned |-> HaveReturned]]
    /\ start' = [start EXCEPT ![u] = now]
    /\ UNCHANGED <<self, ga_exc, store, rows, now>>
    /\ UNCHANGED <<setupVars, procVars, inputVars>>

\* generate_artifact with the two values of method exchanged
GACheck_SwapsMethod(u) ==
    /\ ga_pc[u] = "line113"
    /\ IF dj_file_exists(store, self[u].artifact)
       THEN /\ method' = [method EXCEPT ![u] = "generated"]
            /\ ga_pc' = [ga_pc EXCEPT ![u] = "line117"]
       ELSE /\ method' = [method EXCEPT ![u] = "cached"]
            /\ ga_pc' = [ga_pc EXCEPT ![u] = "line120"]
    /\ ga_calls' = [ga_calls EXCEPT ![u] = Append(@, "dj_file_exists")]
    /\ at_check' = [at_check EXCEPT ![u] =
                      [persisted |-> HavePersisted, returned |-> HaveReturned]]
    /\ start' = [start EXCEPT ![u] = now]
    /\ UNCHANGED <<self, ga_exc, store, rows, now>>
    /\ UNCHANGED <<setupVars, procVars, inputVars>>

\* lines 113-116 and 118-119: start is taken, the store is asked, method set
GACheck(u) ==
    /\ ga_pc[u] = "line113"
    /\ IF dj_file_exists(store, self[u].artifact)
       THEN /\ method' = [method EXCEPT ![u] = "cached"]
            /\ ga_pc' = [ga_pc EXCEPT ![u] = "line117"]
       ELSE /\ method' = [method EXCEPT ![u] = "generated"]
            /\ ga_pc' = [ga_pc EXCEPT ![u] = "line120"]
    /\ ga_calls' = [ga_calls EXCEPT ![u] = Append(@, "dj_file_exists")]
    /\ at_check' = [at_check EXCEPT ![u] =
                      [persisted |-> HavePersisted, returned |-> HaveReturned]]
    /\ start' = [start EXCEPT ![u] = now]
    /\ UNCHANGED <<self, ga_exc, store, rows, now>>
    /\ UNCHANGED <<setupVars, procVars, inputVars>>

\* the cached path without its load_dj()
GALoad_SkipsLoad(u) ==
    /\ ga_pc[u] = "line117"
    /\ ga_calls' = [ga_calls EXCEPT ![u] = Append(@, "load_dj")]
    /\ ga_pc' = [ga_pc EXCEPT ![u] = "line123"]
    /\ UNCHANGED <<self, method, ga_exc, at_check, store, rows, now, start>>
    /\ UNCHANGED <<setupVars, procVars, inputVars>>

\* line 117: self.artifact.load_dj()
GALoad(u) ==
    /\ ga_pc[u] = "line117"
    /\ self' = [self EXCEPT ![u].artifact = load_dj(store, @)]
    /\ ga_calls' = [ga_calls EXCEPT ![u] = Append(@, "load_dj")]
    /\ ga_pc' = [ga_pc EXCEPT ![u] = "line123"]
    /\ UNCHANGED <<method, ga_exc, at_check, store, rows, now, start>>
    /\ UNCHANGED <<setupVars, procVars, inputVars>>

\* self.process() inside a try/except that goes on to line 121
GAProcess_SwallowsException(u) ==
    /\ ga_pc[u] = "line120"
    /\ LET f == RunProcess(NewFrame(self[u].klass,
                                    self[u].artifact.input_data_dict,
                                    self[u].artifact.data_dict))
       IN /\ self' = [self EXCEPT ![u].artifact.data_dict = f.data_dict]
          /\ ga_exc' = [ga_exc EXCEPT ![u] = f.exc]
          /\ ga_pc' = [ga_pc EXCEPT ![u] = "line121"]
    /\ ga_calls' = [ga_calls EXCEPT ![u] = Append(@, "process")]
    /\ UNCHANGED <<method, at_check, store, rows, now, start>>
    /\ UNCHANGED <<setupVars, procVars, inputVars>>

\* line 120: self.process(); an exception of process() ends the call
GAProcess(u) ==
    /\ ga_pc[u] = "line120"
    /\ LET f == RunProcess(NewFrame(self[u].klass,
                                    self[u].artifact.input_data_dict,
                                    self[u].artifact.data_dict))
       IN /\ self' = [self EXCEPT ![u].artifact.data_dict = f.data_dict]
          /\ ga_exc' = [ga_exc EXCEPT ![u] = f.exc]
          /\ ga_pc' = [ga_pc EXCEPT ![u] =
                          IF f.pc = "raised" THEN "raised" ELSE "line121"]
    /\ ga_calls' = [ga_calls EXCEPT ![u] = Append(@, "process")]
    /\ UNCHANGED <<method, at_check, store, rows, now, start>>
    /\ UNCHANGED <<setupVars, procVars, inputVars>>

\* line 121 and lines 108-109: self.generate()
GAGenerate(u) ==
    /\ ga_pc[u] = "line121"
    /\ store' = generate(store, self[u].artifact)
    /\ ga_calls' = [ga_calls EXCEPT ![u] = Append(@, "generate")]
    /\ ga_pc' = [ga_pc EXCEPT ![u] = "line123"]
    /\ UNCHANGED <<self, method, ga_exc, at_check, rows, now, start>>
    /\ UNCHANGED <<setupVars, procVars, inputVars>>

\* lines 129-143: the row log_time builds from the artifact, the class,
\* method and the two times, with elapsed = start - finish
LogRow_ElapsedReversed(hd, meth, st, fin) ==
    [key |-> hd.artifact.key,
     hashstring |-> hd.artifact.hashstring,
     doc_key |-> hd.artifact.doc.key,
     klass |-> hd.klass,
     method |-> meth,
     start |-> st,
     finish |-> fin,
     elapsed |-> st - fin]

\* lines 129-143: the row log_time builds from the artifact, the class,
\* method and the two times
LogRow(hd, meth, st, fin) ==
    [key |-> hd.artifact.key,
     hashstring |-> hd.artifact.hashstring,
     doc_key |-> hd.artifact.doc.key,
     klass |-> hd.klass,
     method |-> meth,
     start |-> st,
     finish |-> fin,
     elapsed |-> fin - st]

\* lines 123-126 and 129-143: finish is taken, the row goes to the
\* controller, the artifact is returned
GALogTime(u) ==
    /\ ga_pc[u] = "line123"
    /\ rows' = [rows EXCEPT ![u] =
                  Append(@, LogRow(self[u], method[u], start[u], now))]
    /\ ga_calls' = [ga_calls EXCEPT ![u] = Append(@, "log_time")]
    /\ ga_pc' = [ga_pc EXCEPT ![u] = "returned"]
    /\ UNCHANGED <<self, method, ga_exc, at_check, store, now, start>>
    /\ UNCHANGED <<setupVars, procVars, inputVars>>

Next ==
    \/ \E u \in Units : GACheck(u)
    \/ \E u \in Units : GALoad(u)
    \/ \E u \in Units : GAProcess(u)
    \/ \E u \in Units : GAGenerate(u)
    \/ \E u \in Units : GALogTime(u)

Spec == Init /\ [][Next]_vars

\* ------------------------------------------------------------------------
\* The same handlers with a clock that advances
\* ------------------------------------------------------------------------
\* the subclasses of the handlers that are timed
TimedClasses ==
    {c \in GenClasses : /\ c.styles \subseteq {"process_text", "process_dict"}
                        /\ c.raising = {}}

TimingInit ==
    /\ Init
    /\ \A u \in Units : self[u].klass \in TimedClasses

\* time passes between two statements of any handler
Tick ==
    /\ now < MaxTime
    /\ now' = now + 1
    /\ UNCHANGED <<self, ga_pc, method, ga_exc, ga_calls, at_check, store,
                   rows, start>>
    /\ UNCHANGED <<setupVars, procVars, inputVars>>

TimingNext ==
    \/ Tick
    \/ Next

SpecTiming == TimingInit /\ [][TimingNext]_vars

\* ------------------------------------------------------------------------
\* The same handlers, called more than once
\* ------------------------------------------------------------------------
\* the generate_artifact calls started on the handler of u
CallsStarted(u) ==
    Cardinality({n \in DOMAIN ga_calls[u] : ga_calls[u][n] = "dj_file_exists"})

\* line 112: generate_artifact() is called on a handler whose earlier call
\* has returned; nothing in the method looks at what the handler did before
GACallAgain(u) ==
    /\ ga_pc[u] = "returned"
    /\ CallsStarted(u) < MaxGenerateCalls
    /\ ga_pc' = [ga_pc EXCEPT ![u] = "line113"]
    /\ UNCHANGED <<self, method, ga_exc, ga_calls, at_check, store, rows,
                   now, start>>
    /\ UNCHANGED <<setupVars, procVars, inputVars>>

ReuseNext ==
    \/ \E u \in Units : GACallAgain(u)
    \/ Next

\* the subclasses of the handlers that are called again
ReusedClasses == {c \in GenClasses : c.styles \subseteq {"process_text"}}

ReuseInit ==
    /\ Init
    /\ \A u \in Units : self[u].klass \in ReusedClasses

SpecReuse == ReuseInit /\ [][ReuseNext]_vars

\* ------------------------------------------------------------------------
\* Properties of DexyHandler.setup (SpecSetup)
\* ------------------------------------------------------------------------
\* setup has ended, by return or by exception
SetupEnded == setup_pc \in {"returned", "raised"}

\* neither OUTPUT_EXTENSIONS nor the next handler's INPUT_EXTENSIONS has the
\* wildcard, and a next handler is given
NegotiatedCase ==
    /\ ~(\E n \in DOMAIN OUTPUT_EXTENSIONS : OUTPUT_EXTENSIONS[n] = WILDCARD)
    /\ next_handler.given
    /\ ~(\E n \in DOMAIN next_handler.INPUT_EXTENSIONS :
            next_handler.INPUT_EXTENSIONS[n] = WILDCARD)

\* the positions of OUTPUT_EXTENSIONS whose entry the next handler accepts
AcceptedPositions ==
    {n \in DOMAIN OUTPUT_EXTENSIONS :
        \E m \in DOMAIN next_handler.INPUT_EXTENSIONS :
            next_handler.INPUT_EXTENSIONS[m] = OUTPUT_EXTENSIONS[n]}

\* the upstream extension is an entry of INPUT_EXTENSIONS, or the wildcard is
UpstreamAccepted ==
    \/ \E n \in DOMAIN INPUT_EXTENSIONS :
          INPUT_EXTENSIONS[n] = previous_artifact.ext
    \/ \E n \in DOMAIN INPUT_EXTENSIONS : INPUT_EXTENSIONS[n] = WILDCARD

\* C1: when neither list has the wildcard and a next handler is given, a
\* setup that returns has resolved the artifact extension to the first entry
\* of OUTPUT_EXTENSIONS, in declared order, that the next handler accepts.
C1_FirstMatchWins ==
    (setup_pc = "returned" /\ NegotiatedCase /\ AcceptedPositions # {})
    => \E n \in AcceptedPositions :
          /\ \A m \in AcceptedPositions : n <= m
          /\ h.artifact.ext = OUTPUT_EXTENSIONS[n]

\* C3: when setup raises the unsupported-extension error, no Artifact has
\* been created or attached to the handler.
C3_NoArtifactOnUnsupported ==
    setup_exc = "ExtensionNotSupported" => ~h.artifact.created

\* C6: when neither list has the wildcard, a next handler is given and no
\* entry of OUTPUT_EXTENSIONS is accepted by it, a setup that got past the
\* input validation ends with the no-compatible-extension error and without
\* a hashstring, whatever ext the fresh Artifact held.
C6_NoCompatibleRaises ==
    (SetupEnded /\ UpstreamAccepted /\ NegotiatedCase /\ AcceptedPositions = {})
    => /\ setup_exc = "NoCompatibleExtension"
       /\ h.artifact.hashstring = NoHash

\* C10: once the validation of lines 32-37 has run, setup has raised the
\* unsupported-extension error exactly when the upstream extension is neither
\* an entry of INPUT_EXTENSIONS nor covered by the wildcard, and otherwise
\* h.ext is the upstream extension.
C10_ValidationIffAccepted ==
    setup_pc \notin {"idle", "line25", "line32"}
    => /\ (setup_exc = "ExtensionNotSupported") <=> ~UpstreamAccepted
       /\ UpstreamAccepted => h.ext = previous_artifact.ext

\* C10 witness: the validation has accepted an upstream extension that is
\* not itself an entry of INPUT_EXTENSIONS, through the wildcard
C10_Witness ==
    /\ setup_pc = "line39"
    /\ \A n \in DOMAIN INPUT_EXTENSIONS :
          INPUT_EXTENSIONS[n] # previous_artifact.ext
    /\ h.ext = previous_artifact.ext
    /\ previous_artifact.ext # WILDCARD

\* ------------------------------------------------------------------------
\* Properties of DexyHandler.process (SpecProcess)
\* ------------------------------------------------------------------------
\* the stage defines more than one convenience method
Ambiguous == Cardinality(proc.styles) >= 2

\* the convenience method of the stage that comes first in the probe order
FirstStyle ==
    ProbeOrder[CHOOSE n \in DOMAIN ProbeOrder :
                  /\ ProbeOrder[n] \in proc.styles
                  /\ \A m \in 1..(n - 1) : ProbeOrder[m] \notin proc.styles]

C5_ErrorBeforeAnyStyleRuns ==
    proc.exc = "AlreadyCalled"
    => (proc.called = <<>> /\ proc.data_dict = proc.data_dict_before)

\* what the first style of the stage leaves in a data_dict that was d
FirstStyleOutput(d) ==
    IF FirstStyle = "process_text"
    THEN SetItem(d, "1", process_text(input_text(proc.input_data_dict)))
    ELSE IF FirstStyle = "process_dict"
         THEN process_dict(proc.input_data_dict)
         ELSE process_text_to_dict(input_text(proc.input_data_dict))

\* C5 amended: when the ambiguity error is raised exactly one convenience
\* method has been called, the first of the stage in the probe order, and
\* data_dict holds the output of that method; no second method has run.
C5_ErrorAfterFirstStyleRan ==
    proc.exc = "AlreadyCalled"
    => /\ proc.called = <<FirstStyle>>
       /\ proc.data_dict = FirstStyleOutput(proc.data_dict_before)
       /\ proc.ret = ""

\* C5 witness: the ambiguity error has been raised after process_text ran
\* and changed data_dict
C5_Witness ==
    /\ proc.exc = "AlreadyCalled"
    /\ proc.called = <<"process_text">>
    /\ proc.data_dict # proc.data_dict_before
    /\ Cardinality(proc.styles) = 3

\* ------------------------------------------------------------------------
\* Properties of DexyHandler.generate_artifact (Spec)
\* ------------------------------------------------------------------------
SameFingerprint(u, v) ==
    self[u].artifact.hashstring = self[v].artifact.hashstring

\* a persisted artifact with u's hashstring existed when u ran line 115
ExistedAtCheck(u) ==
    \E v \in at_check[u].persisted : v # u /\ SameFingerprint(u, v)

Called(u, name) == \E n \in DOMAIN ga_calls[u] : ga_calls[u][n] = name

IsPrefix(a, b) == Len(a) <= Len(b) /\ \A n \in DOMAIN a : a[n] = b[n]

CachedPath == <<"dj_file_exists", "load_dj", "log_time">>

GeneratedPath == <<"dj_file_exists", "process", "generate", "log_time">>

\* C2 as stated: of two handlers whose artifacts have the same hashstring at
\* most one takes the 'generated' path.
C2_AtMostOneGenerates ==
    \A u \in Units : \A v \in Units :
        (u # v /\ SameFingerprint(u, v))
        => ~(method[u] = "generated" /\ method[v] = "generated")

\* C2 amended: two handlers with the same hashstring can both take the
\* 'generated' path, but a handler whose existence check runs after another
\* handler has persisted that hashstring takes the 'cached' path and does
\* not run process().
C2_GeneratesOnlyIfAbsentAtCheck ==
    \A u \in Units :
        (ga_pc[u] # "line113" /\ ExistedAtCheck(u))
        => /\ method[u] = "cached"
           /\ ~Called(u, "process")
           /\ ~Called(u, "generate")

\* C2 witness: a handler checked after another one had persisted the same
\* hashstring, and has returned
C2_Witness ==
    \E u \in Units :
        /\ ExistedAtCheck(u)
        /\ ga_pc[u] = "returned"
        /\ method[u] = "cached"

\* C7: in one generate_artifact call, the persisted artifact existing at the
\* check means load_dj and never process(), outcome 'cached'; not existing
\* means process() then generate(), outcome 'generated'; the row handed to
\* the controller carries the outcome of the path taken.
C7_ExactlyOnePath ==
    \A u \in Units :
        /\ ga_pc[u] # "line113"
           => /\ ExistedAtCheck(u) => method[u] = "cached"
              /\ ~ExistedAtCheck(u) => method[u] = "generated"
        /\ method[u] = "cached" => IsPrefix(ga_calls[u], CachedPath)
        /\ method[u] = "generated" => IsPrefix(ga_calls[u], GeneratedPath)
        /\ ga_pc[u] = "returned"
           => /\ Len(rows[u]) = 1
              /\ rows[u][1].method = method[u]
              /\ rows[u][1].method = "cached" => ga_calls[u] = CachedPath
              /\ rows[u][1].method = "generated" => ga_calls[u] = GeneratedPath
              /\ rows[u][1].method \in {"cached", "generated"}

\* C7 witness: one handler has returned on the cached path and another on
\* the generated path
C7_Witness ==
    \E u \in Units : \E v \in Units :
        /\ ga_pc[u] = "returned" /\ rows[u][1].method = "cached"
        /\ ga_calls[u] = CachedPath
        /\ ga_pc[v] = "returned" /\ rows[v][1].method = "generated"
        /\ ga_calls[v] = GeneratedPath

\* C8: a handler whose process() raised has not called generate(), and every
\* persisted artifact was written by a handler whose process() returned.
C8_NothingPersistedOnFailure ==
    /\ \A u \in Units : ga_exc[u] # "" => ~Called(u, "generate")
    /\ \A r \in store :
          \E v \in Units :
              /\ Called(v, "generate")
              /\ ga_exc[v] = ""
              /\ self[v].artifact.hashstring = r.hashstring
              /\ self[v].artifact.data_dict = r.data_dict
    /\ \A u \in Units :
          Called(u, "generate")
          => (Len(ga_calls[u]) >= 3 /\ ga_calls[u][2] = "process"
              /\ ga_calls[u][3] = "generate")

\* C8 witness: process() raised the ambiguity error after changing the
\* artifact's data_dict, and the store has no entry for that hashstring
C8_Witness ==
    \E u \in Units :
        /\ ga_pc[u] = "raised"
        /\ ga_exc[u] = "AlreadyCalled"
        /\ self[u].artifact.data_dict # EmptyDict
        /\ ~dj_file_exists(store, self[u].artifact)
        /\ store # {}

\* C9: from an empty store, when a handler runs generate_artifact and, after
\* it returned, a second handler with the same hashstring does, the first
\* reports 'generated', the second 'cached', and the second's data_dict
\* equals the first's.
C9_SecondRunIsCached ==
    \A u \in Units : \A v \in Units :
        ( /\ u # v
          /\ SameFingerprint(u, v)
          /\ ~ExistedAtCheck(u)
          /\ u \in at_check[v].returned
          /\ ga_pc[v] = "returned" )
        => /\ rows[u][1].method = "generated"
           /\ rows[v][1].method = "cached"
           /\ self[v].artifact.data_dict = self[u].artifact.data_dict

\* C9 witness: two such handlers have returned, with a non-empty data_dict
C9_Witness ==
    \E u \in Units : \E v \in Units :
        /\ u # v
        /\ SameFingerprint(u, v)
        /\ u \in at_check[v].returned
        /\ ga_pc[v] = "returned"
        /\ rows[v][1].method = "cached"
        /\ self[v].artifact.data_dict # EmptyDict
        /\ self[v].klass.styles = {"process_text_to_dict"}

\* ------------------------------------------------------------------------
\* Further properties of DexyHandler.setup (SpecSetup)
\* ------------------------------------------------------------------------
\* OUTPUT_EXTENSIONS has the wildcard
OutputHasWildcard ==
    \E n \in DOMAIN OUTPUT_EXTENSIONS : OUTPUT_EXTENSIONS[n] = WILDCARD

\* the next handler is given and its INPUT_EXTENSIONS has the wildcard
NextAcceptsAny ==
    /\ next_handler.given
    /\ \E n \in DOMAIN next_handler.INPUT_EXTENSIONS :
          next_handler.INPUT_EXTENSIONS[n] = WILDCARD

\* C11: if OUTPUT_EXTENSIONS contains the wildcard, a setup that returns has
\* resolved the artifact extension to the upstream extension, with or
\* without a next handler and whatever that handler accepts.
C11_WildcardPassesThrough ==
    (setup_pc = "returned" /\ OutputHasWildcard)
    => h.artifact.ext = previous_artifact.ext

\* C11 witness: pass-through with a next handler that accepts neither the
\* wildcard nor the upstream extension
C11_Witness ==
    /\ setup_pc = "returned"
    /\ OutputHasWildcard
    /\ next_handler.given
    /\ ~NextAcceptsAny
    /\ \A n \in DOMAIN next_handler.INPUT_EXTENSIONS :
          next_handler.INPUT_EXTENSIONS[n] # previous_artifact.ext
    /\ h.artifact.ext = previous_artifact.ext
    /\ previous_artifact.ext # WILDCARD

\* C12: if OUTPUT_EXTENSIONS has no wildcard and there is no next handler or
\* the next handler accepts the wildcard, a setup that returns has resolved
\* the artifact extension to the first entry of OUTPUT_EXTENSIONS.
C12_FirstOutputByDefault ==
    (setup_pc = "returned" /\ ~OutputHasWildcard
        /\ (~next_handler.given \/ NextAcceptsAny))
    => h.artifact.ext = OUTPUT_EXTENSIONS[1]

\* C12 witness: two different output entries, a next handler with the
\* wildcard, the first entry resolved
C12_Witness ==
    /\ setup_pc = "returned"
    /\ ~OutputHasWildcard
    /\ NextAcceptsAny
    /\ Len(OUTPUT_EXTENSIONS) >= 2
    /\ OUTPUT_EXTENSIONS[1] # OUTPUT_EXTENSIONS[Len(OUTPUT_EXTENSIONS)]
    /\ h.artifact.ext = OUTPUT_EXTENSIONS[1]

\* C17: the hashstring is computed only by a setup that returns, no step
\* changes the artifact extension once the hashstring is computed, and a
\* setup that raised has computed no hashstring.
C17_HashstringAfterExtension ==
    /\ [](h.artifact.hashstring # NoHash => setup_pc = "returned")
    /\ [](setup_exc # "" => h.artifact.hashstring = NoHash)
    /\ [][h.artifact.hashstring # NoHash
            => h'.artifact.ext = h.artifact.ext]_vars
    /\ [][(h.artifact.hashstring = NoHash /\ h'.artifact.hashstring # NoHash)
            => h'.artifact.ext = h.artifact.ext]_vars

\* C17 witness: the hashstring has been computed after the loop of lines
\* 43-45 assigned the extension
C17_Witness ==
    /\ setup_pc = "returned"
    /\ h.artifact.hashstring # NoHash
    /\ NegotiatedCase
    /\ AcceptedPositions # {}
    /\ setup_i > Len(OUTPUT_EXTENSIONS)

\* C18: when setup returns and the upstream extension is not the wildcard,
\* the artifact extension is one value that is neither empty nor the
\* wildcard.
C18_ConcreteOutputExtension ==
    (setup_pc = "returned" /\ previous_artifact.ext # WILDCARD)
    => /\ h.artifact.ext \in Exts
       /\ h.artifact.ext # NoExt
       /\ h.artifact.ext # WILDCARD

\* C18 witness: a pass-through setup has returned with a concrete upstream
\* extension under a wildcard INPUT_EXTENSIONS and OUTPUT_EXTENSIONS
C18_Witness ==
    /\ setup_pc = "returned"
    /\ previous_artifact.ext # WILDCARD
    /\ INPUT_EXTENSIONS = <<WILDCARD>>
    /\ OUTPUT_EXTENSIONS = <<WILDCARD>>
    /\ h.artifact.ext = previous_artifact.ext

\* ------------------------------------------------------------------------
\* Further properties of DexyHandler.process (SpecProcess)
\* ------------------------------------------------------------------------
\* C13: on a stage with exactly one convenience method (which does not
\* raise), process() calls that method exactly once and returns its name;
\* after process_text data_dict is the one fragment '1' holding the returned
\* text, after process_dict or process_text_to_dict it is the mapping the
\* method returned.
C13_SingleStyleDispatch ==
    \A name \in Styles :
        (proc.pc # "idle" /\ proc.styles = {name} /\ proc.raising = {})
        => /\ proc.pc # "raised"
           /\ Len(proc.called) <= 1
           /\ proc.pc \in {"line93", "line97", "returned"}
              => proc.called = <<name>>
           /\ proc.pc = "returned"
              => /\ proc.ret = name
                 /\ name = "process_text"
                    => proc.data_dict =
                         << <<"1", process_text(input_text(proc.input_data_dict))>> >>
                 /\ name = "process_dict"
                    => proc.data_dict = process_dict(proc.input_data_dict)
                 /\ name = "process_text_to_dict"
                    => proc.data_dict =
                         process_text_to_dict(input_text(proc.input_data_dict))

\* C13 witness: a second process() call on a process_text stage has
\* returned, over a data_dict that already had the fragment '1'
C13_Witness ==
    /\ proc.styles = {"process_text"}
    /\ proc.pc = "returned"
    /\ proc.ret = "process_text"
    /\ proc_calls = 2
    /\ proc.data_dict_before # EmptyDict
    /\ Len(proc.data_dict) = 1
    /\ Len(proc.input_data_dict) = 2

\* C14: on a stage with none of the convenience methods, process() returns
\* 'process' and leaves data_dict equal to input_data_dict: the same
\* fragments in the same order with the same contents.
C14_IdentityByDefault ==
    (proc.pc = "returned" /\ proc.styles = {})
    => /\ proc.ret = "process"
       /\ proc.called = <<>>
       /\ Len(proc.data_dict) = Len(proc.input_data_dict)
       /\ \A n \in DOMAIN proc.input_data_dict :
             proc.data_dict[n] = proc.input_data_dict[n]

\* C14 witness: the identity has copied an input whose fragment '2' comes
\* before its fragment '1'
C14_Witness ==
    /\ proc.pc = "returned"
    /\ proc.styles = {}
    /\ proc.ret = "process"
    /\ proc.input_data_dict = << <<"2", <<"b">> >>, <<"1", <<"a">> >> >>
    /\ proc.data_dict = proc.input_data_dict
    /\ proc.data_dict_before = EmptyDict

\* C20: one process() call invokes at most one convenience method, and the
\* one it invokes is the first of the stage in the probe order; this holds
\* at every step, so also in calls that end with the ambiguity error.
C20_AtMostOneStyleCalled ==
    /\ Len(proc.called) <= 1
    /\ proc.called # <<>> => proc.called = <<FirstStyle>>
    /\ (ProcDone(proc) /\ proc.styles # {}) => proc.called = <<FirstStyle>>

\* C20 witness: a stage with all three methods has ended with the
\* ambiguity error after calling process_text only
C20_Witness ==
    /\ proc.styles = Styles
    /\ proc.raising = {}
    /\ proc.pc = "raised"
    /\ proc.k = 2
    /\ proc.called = <<"process_text">>

\* ------------------------------------------------------------------------
\* Properties of DexyHandler.set_input_text (SpecInput)
\* ------------------------------------------------------------------------
\* C16: a set_input_text call on a handler that already has an artifact,
\* from setup or from an earlier set_input_text, raises and leaves the
\* artifact and its data as they were; so the handler's artifact is never
\* replaced by a second one.
C16_AtMostOneArtifact ==
    /\ [][(handler.has_artifact /\ sit_args' # sit_args)
            => (sit_exc' = "AlreadyHaveArtifact" /\ handler' = handler)]_vars
    /\ [][handler.has_artifact
            => (handler'.has_artifact
                /\ handler'.artifact = handler.artifact)]_vars
    /\ [](sit_exc = "AlreadyHaveArtifact" => handler.has_artifact)

\* C16 witness: a second set_input_text, with another text, has been refused
\* and the artifact still holds the first text
C16_Witness ==
    /\ sit_args = << <<"a">>, <<"b">> >>
    /\ sit_exc = "AlreadyHaveArtifact"
    /\ handler.has_artifact
    /\ handler.artifact.input_data_dict = << <<"1", <<"a">> >> >>
    /\ handler.artifact.data_dict = EmptyDict

\* ------------------------------------------------------------------------
\* Properties of the timing row (SpecTiming)
\* ------------------------------------------------------------------------
\* C19: a generate_artifact call that has returned has handed exactly one
\* row to the controller, after its cached or generated path finished; the
\* row holds the artifact key, the hashstring, the document key, the class,
\* the method of the path taken, start, finish and elapsed = finish - start.
\* A call that has not returned, or that ended with an exception, has handed
\* over no row.
C19_OneTimingRow ==
    \A u \in Units :
        /\ ga_pc[u] # "returned" => rows[u] = <<>>
        /\ ga_pc[u] = "returned"
           => /\ Len(rows[u]) = 1
              /\ ga_calls[u] \in {CachedPath, GeneratedPath}
              /\ DOMAIN rows[u][1] = {"key", "hashstring", "doc_key", "klass",
                                      "method", "start", "finish", "elapsed"}
              /\ rows[u][1].key = self[u].artifact.key
              /\ rows[u][1].hashstring = self[u].artifact.hashstring
              /\ rows[u][1].doc_key = self[u].artifact.doc.key
              /\ rows[u][1].klass = self[u].klass
              /\ rows[u][1].method = method[u]
              /\ rows[u][1].method =
                    (IF Called(u, "load_dj") THEN "cached" ELSE "generated")
              /\ rows[u][1].start = start[u]
              /\ rows[u][1].finish \in start[u]..now
              /\ rows[u][1].elapsed + rows[u][1].start = rows[u][1].finish

\* C19 witness: a call took time and has returned with its row, while
\* another call ended with an exception
C19_Witness ==
    \E u \in Units : \E v \in Units :
        /\ ga_pc[u] = "returned"
        /\ Len(rows[u]) = 1
        /\ rows[u][1].start = 0
        /\ rows[u][1].finish = 1
        /\ rows[u][1].elapsed = 1
        /\ ga_pc[v] = "raised"
        /\ rows[v] = <<>>

\* ------------------------------------------------------------------------
\* Properties of a handler over several calls (SpecReuse)
\* ------------------------------------------------------------------------
\* how often generate_artifact of u has made the call name
TimesCalled(u, name) ==
    Cardinality({n \in DOMAIN ga_calls[u] : ga_calls[u][n] = name})

\* C15: over any sequence of calls on one handler no step of the lifecycle
\* happens twice: the existence check, load_dj, process(), generate() and
\* the timing row each occur at most once, so a second generate_artifact
\* call on a handler that has returned runs none of them again.
C15_SingleUse ==
    \A u \in Units :
        /\ \A name \in {"dj_file_exists", "load_dj", "process", "generate",
                        "log_time"} : TimesCalled(u, name) <= 1
        /\ Len(rows[u]) <= 1

====
